---------------------------- MODULE Spec2Model ----------------------------
(***************************************************************************)
(* Order adaptors of EO-DataHub/commercial-data-adaptors.                  *)
(*                                                                         *)
(* Spec      the per-item order workflow of the Airbus optical and the     *)
(*           Airbus SAR adaptor (main of airbus_optical_adaptor and of     *)
(*           airbus/airbus_sar_adaptor), with the STAC documents it        *)
(*           mutates, the local output files and the workspace bucket.     *)
(* PollSpec  the four poll_s3_for_data variants of the repository, run     *)
(*           against a landing bucket the vendor writes to and a clock.    *)
(*                                                                         *)
(* A STAC document is a function from JSON keys to values, "None" standing *)
(* for a key that is absent or null (dict.get gives None for both).        *)
(* Timestamps and the links of the item are left out: nothing below reads  *)
(* them.                                                                   *)
(***************************************************************************)
EXTENDS Integers, Sequences, FiniteSets, TLC

VARIABLES
    variant,      \* which main runs: "optical" or "sar"
    items,        \* stac_items: the in-memory stac_json of every STACItem
    idx,          \* position of the for loop of main in stac_items
    pc,           \* position of main inside the loop body
    order_id,     \* main's local order_id
    files,        \* number of files the download left in the delivery directory
    outFile,      \* local file <file_name> per item: <<>> or <<document>>
    bucket,       \* workspace bucket copy per item: <<>> or <<document>>
    vendorBusy,   \* the vendor has an in-progress order for the current acquisition
    sent,         \* an order request for the current item reached the vendor
    ingested,     \* the last ingest_stac_item of the current item stored the item
    trail,        \* per item: the loaded status, then every status the run wrote
    branch,       \* per item: the branch of main that ended its processing
    returnedId,   \* per item: the order id post_submit_order returned
    coordinates,  \* main's coordinates argument
    notified,     \* per item: the statuses a Pulsar message was sent for
    pvariant,     \* which poll_s3_for_data runs
    timeout,      \* its timeout argument
    polling_interval, \* its polling_interval argument
    clock,        \* time.time()
    start_time,   \* its local start_time
    ppc,          \* position inside poll_s3_for_data
    landing,      \* keys under the polled prefix in the source bucket
    response,     \* keys of the last list_objects_v2 response
    fname,        \* the function a call of which is examined on its own
    args,         \* its arguments
    result,       \* what the call returned or raised
    fpc           \* "call" before the call, "done" after it

wfVars == <<variant, items, idx, pc, order_id, files, outFile, bucket,
            vendorBusy, sent, ingested, trail, branch, returnedId,
            coordinates, notified>>
pollVars == <<pvariant, timeout, polling_interval, clock, start_time, ppc,
              landing, response>>
fnVars == <<fname, args, result, fpc>>
vars == <<variant, items, idx, pc, order_id, files, outFile, bucket,
          vendorBusy, sent, ingested, trail, branch, returnedId,
          coordinates, notified, pvariant, timeout, polling_interval, clock, start_time, ppc,
          landing, response, fname, args, result, fpc>>

\* What a run of main leaves alone, and what a call of a poller leaves alone.
besidesMain == <<pollVars, fnVars>>
besidesPoll == <<wfVars, fnVars>>

---------------------------------------------------------------------------
(* Bounds *)

MaxItems == 2

---------------------------------------------------------------------------
(* STAC documents *)

None == "None"

OrderStatus == {"orderable", "ordered", "pending", "shipping", "succeeded",
                "failed", "canceled"}

ORDERED == "ordered"
FAILED == "failed"
SUCCEEDED == "succeeded"

\* dict.get(part)
Get(value, part) == IF part \in DOMAIN value THEN value[part] ELSE None

\* key.split(".") is given as the sequence of its parts; the walk stops at the
\* first part that is missing.
get_key_from_stac(stac_item, key) ==
    IF Len(key) = 1
    THEN Get(stac_item, key[1])
    ELSE IF key[1] \in DOMAIN stac_item
         THEN Get(stac_item[key[1]], key[2])
         ELSE None

update_stac_order_status(stac_item, oid, order_status) ==
    [stac_item EXCEPT
        !["properties"] =
            [@ EXCEPT !["order:id"] = IF oid # None THEN oid ELSE @,
                      !["order:status"] = order_status]]

\* STACItem.order_status
STACItem_order_status(stac_json) ==
    get_key_from_stac(stac_json, <<"order:status">>)

\* A failure record that leaves out the reason.
update_stac_item_failure_no_reason(stac_item, reason, oid) ==
    update_stac_order_status(stac_item, oid, FAILED)

\* The document changes of update_stac_item_failure, before its write.
update_stac_item_failure(stac_item, reason, oid) ==
    [update_stac_order_status(stac_item, oid, FAILED) EXCEPT
        !["properties"]["order_failure_reason"] = reason]

\* An ordered record that leaves out the order id.
update_stac_item_ordered_no_id(stac_item, oid) ==
    update_stac_order_status(stac_item, None, ORDERED)

\* The document changes of update_stac_item_ordered, before its ingest.
update_stac_item_ordered(stac_item, oid) ==
    update_stac_order_status(stac_item, oid, ORDERED)

\* The asset names update_stac_item_success registers when the files of the
\* delivery directory yield n distinct names.
AssetNames(n) == {<<"asset", i>> : i \in 1..n}

\* The document changes of update_stac_item_success, before its write.
update_stac_item_success(stac_item, oid, n) ==
    update_stac_order_status(
        [stac_item EXCEPT !["assets"] = @ \cup AssetNames(n)], oid, SUCCEEDED)

Properties(status, oid, reason) ==
    ("order:id" :> oid) @@ ("order:status" :> status)
        @@ ("order_failure_reason" :> reason)

\* The documents a run may load.  They satisfy the data model: an order id
\* with every status but orderable and failed, a failure reason exactly with
\* failed, and "assets" (which a STAC item requires) empty.  The top-level
\* "order:status", which STACItem reads, is free.
LoadedDocs ==
    { ("order:status" :> top) @@ ("properties" :> Properties(s, oid, r))
          @@ ("assets" :> {}) :
        top \in {None, ORDERED},
        s \in OrderStatus \cup {None},
        oid \in {None, "SO_old"},
        r \in {None, "old reason"} }

WellFormed(d) ==
    LET p == d["properties"] IN
    /\ p["order:id"] # None <=> p["order:status"] \in OrderStatus \ {"orderable", FAILED}
    /\ p["order_failure_reason"] # None <=> p["order:status"] = FAILED

Status(d) == d["properties"]["order:status"]
OrderId(d) == d["properties"]["order:id"]
Reason(d) == d["properties"]["order_failure_reason"]

---------------------------------------------------------------------------
(* The vendor and the stores, as main sees them *)

\* What one call of post_submit_order can do, as main sees it: the call raises
\* before any request is made, the vendor rejects the request
\* (raise_for_status), or the function returns.  The optical one returns
\* body.get("salesOrderId"), which is None when the response carries no such
\* field.  The SAR one returns the literal "placeholder" before it builds a
\* request.  Whether the statements before the request let a call through is
\* left open here: in this source tree the optical get_body has no branch for
\* the collection ids post_submit_order accepts, and the SAR main passes four
\* positional arguments to a function of three parameters, so both calls
\* raise ("raises_before_request") for every input.
SubmitOutcomes(v) ==
    IF v = "optical"
    THEN {"raises_before_request", "rejected", "accepted", "accepted_no_id"}
    ELSE {"raises_before_request", "placeholder"}

\* What the token request of generate_access_token meets: the two secrets
\* (present or not), what the decryption makes of them, and the response of
\* the identity provider.
Decryptions == {"ok", "length_mismatch", "not_utf8", "bad_base64"}

AuthInputs ==
    [otp : BOOLEAN, ciphertext : BOOLEAN, decryption : Decryptions,
     response : {"access_token", "no_access_token"}]

\* decrypt_airbus_api_key: the key, the hex of the bytes that are not UTF-8,
\* or None from either except clause.
decrypt_airbus_api_key(decryption) ==
    CASE decryption = "ok" -> "key"
      [] decryption = "not_utf8" -> "hex"
      [] OTHER -> None

\* get_airbus_api_key: ValueError when a secret is missing, else what the
\* decryption returned.
get_airbus_api_key(a) ==
    IF ~a.otp \/ ~a.ciphertext
    THEN [raised |-> TRUE, value |-> None]
    ELSE [raised |-> FALSE, value |-> decrypt_airbus_api_key(a.decryption)]

\* generate_access_token: ValueError when there is no key, KeyError when the
\* response has no "access_token".
generate_access_token(a) ==
    LET api_key == get_airbus_api_key(a)
    IN  IF api_key.raised \/ api_key.value = None
        THEN [raised |-> TRUE, value |-> None]
        ELSE IF a.response = "access_token"
             THEN [raised |-> FALSE, value |-> "token"]
             ELSE [raised |-> TRUE, value |-> None]

\* The outcomes in which the optical post_submit_order gets as far as its
\* call of generate_access_token.
ReachesToken(outcome) == outcome \in {"rejected", "accepted", "accepted_no_id"}

\* A submission that sends its request whether or not it holds a token.
post_submit_order_without_token(outcome, a) ==
    CASE outcome = "accepted" ->
            [raised |-> FALSE, sent |-> TRUE, order_id |-> "SO_new"]
      [] outcome = "accepted_no_id" ->
            [raised |-> FALSE, sent |-> TRUE, order_id |-> None]
      [] outcome = "placeholder" ->
            [raised |-> FALSE, sent |-> FALSE, order_id |-> "placeholder"]
      [] outcome = "rejected" ->
            [raised |-> TRUE, sent |-> TRUE, order_id |-> None]
      [] OTHER ->
            [raised |-> TRUE, sent |-> FALSE, order_id |-> None]

\* [raised, sent, order_id] of post_submit_order for an outcome.  The optical
\* function calls generate_access_token once the request body is built and
\* before requests.post; an exception of it ends the call.
post_submit_order(outcome, a) ==
    IF ReachesToken(outcome) /\ generate_access_token(a).raised
    THEN [raised |-> TRUE, sent |-> FALSE, order_id |-> None]
    ELSE CASE outcome = "accepted" ->
                 [raised |-> FALSE, sent |-> TRUE, order_id |-> "SO_new"]
           [] outcome = "accepted_no_id" ->
                 [raised |-> FALSE, sent |-> TRUE, order_id |-> None]
           [] outcome = "placeholder" ->
                 [raised |-> FALSE, sent |-> FALSE, order_id |-> "placeholder"]
           [] outcome = "rejected" ->
                 [raised |-> TRUE, sent |-> TRUE, order_id |-> None]
           [] OTHER ->
                 [raised |-> TRUE, sent |-> FALSE, order_id |-> None]

\* is_order_in_progress of airbus/airbus_sar_adaptor: its first statement is
\* "return False", whatever the vendor reports.
is_order_in_progress(busy) == FALSE

\* Whether main's duplicate guard fires for a loaded item.
DuplicateGuard(v, stac_json, busy) ==
    IF v = "optical"
    THEN STACItem_order_status(stac_json) = ORDERED
    ELSE is_order_in_progress(busy)

\* write_stac_item_and_catalog opens the item file, then catalog.json and
\* collection.json; any open or dump may raise.
WriteOutcomes == {"ok", "item_write_raises", "index_write_raises"}

\* ingest_stac_item puts the item under two keys and then sends the Pulsar
\* message; any of the calls may raise.
IngestOutcomes == {"ok", "put_raises", "pulsar_raises"}

\* How many files the downloads leave in the delivery directory: none (an
\* empty listing or an empty archive) or some.
DeliveredFiles == {0, 1}

\* poll_s3_for_data followed by download_and_store_locally of every object.
RetrieveOutcomes == {"data", "timeout", "download_raises"}

DUPLICATE == "Order is already in progress"
SUBMIT_FAILED == "Failed to submit order"
RETRIEVE_FAILED == "Failed to retrieve data"

\* The local file after one write_stac_item_and_catalog of document d.
Written(old, d, w) == IF w = "item_write_raises" THEN old ELSE <<d>>

\* The batches of a run: the first item ranges over every loaded document, the
\* items behind it over one document of each kind main tells apart by the
\* top-level status it reads (an orderable one, an ordered one).
FirstDocs == {d \in LoadedDocs : WellFormed(d)}

LaterDocs ==
    {d \in FirstDocs :
        \/ d["order:status"] = None /\ Status(d) = "orderable"
        \/ d["order:status"] = ORDERED /\ Status(d) = ORDERED}

Batches ==
    UNION {{b \in [1..n -> FirstDocs] : \A k \in 2..n : b[k] \in LaterDocs} :
              n \in 1..MaxItems}

---------------------------------------------------------------------------
(* verify_coordinates of airbus/common/stac_utils.py (planet_adaptor/       *)
(* stac_utils.py has the same text).  A Python value is a record of its    *)
(* type and, for a sequence, its items; a number is a record of its type   *)
(* and value.                                                              *)

MaxPolygons == 2
MaxPairs == 2

Num(n) == [type |-> "int", items |-> <<>>, val |-> n]
Str(n) == [type |-> "str", items |-> <<>>, val |-> n]
Seq2(t, a, b) == [type |-> t, items |-> <<a, b>>, val |-> 0]

\* The pairs a caller may pass: in range at the four corners, out of range in
\* longitude or latitude, and malformed in each way is_valid_coordinate tests.
Pairs ==
    {Seq2("list", Num(-180), Num(-90)), Seq2("tuple", Num(180), Num(90)),
     Seq2("list", Num(181), Num(0)), Seq2("list", Num(0), Num(-91)),
     Seq2("list", Num(0), Str(0)),
     [type |-> "list", items |-> <<Num(0), Num(0), Num(0)>>, val |-> 0],
     [type |-> "str", items |-> <<Str(0), Str(0)>>, val |-> 0],
     Num(0)}

\* Types len() accepts.
Sized == {"list", "tuple", "str"}

Numeric == {"int", "float"}

\* "True", "False", or the exception the call raises.
is_valid_coordinate(coordinate) ==
    IF coordinate.type \notin {"list", "tuple"} \/ Len(coordinate.items) # 2
    THEN \* the warning formats len(coordinate) before return False
         IF coordinate.type \in Sized THEN "False" ELSE "TypeError"
    ELSE LET longitude == coordinate.items[1]
             latitude == coordinate.items[2]
         IN  IF latitude.type \notin Numeric \/ longitude.type \notin Numeric
             THEN "False"
             ELSE IF ~(-90 <= latitude.val /\ latitude.val <= 90)
                     \/ ~(-180 <= longitude.val /\ longitude.val <= 180)
             THEN "False"
             ELSE "True"

RECURSIVE AllValid(_)
\* all(is_valid_coordinate(coord) for coord in polygon): stops at the first
\* pair that is not valid.
AllValid(polygon) ==
    IF polygon = <<>> THEN "True"
    ELSE LET first == is_valid_coordinate(Head(polygon))
         IN  IF first = "True" THEN AllValid(Tail(polygon)) ELSE first

\* A verification that looks at the first pair only.
verify_coordinates_first_pair(coords) ==
    IF coords = <<>> \/ Head(coords) = <<>> THEN "True"
    ELSE is_valid_coordinate(Head(Head(coords)))

RECURSIVE verify_coordinates(_)
verify_coordinates(coords) ==
    IF coords = <<>> THEN "True"
    ELSE LET first == AllValid(Head(coords))
         IN  IF first = "True" THEN verify_coordinates(Tail(coords))
             ELSE first

Polygons == UNION {[1..n -> Pairs] : n \in 1..MaxPairs}

CoordinateLists == UNION {[1..n -> Polygons] : n \in 1..MaxPolygons}

\* The coordinates a run of main is given: none, one polygon in range, one
\* with a pair out of range, one with a pair that is no sequence.
AoiInputs ==
    {<<>>,
     <<<<Seq2("list", Num(-180), Num(-90)), Seq2("tuple", Num(180), Num(90))>>>>,
     <<<<Seq2("list", Num(-180), Num(-90)), Seq2("list", Num(181), Num(0))>>>>,
     <<<<Seq2("list", Num(-180), Num(-90)), Num(0)>>>>}

\* geometry.coordinates of the k-th item of the batch, which STACItem reads
\* into stac_item.coordinates: one polygon, different for every item.
ItemGeometry(k) == <<<<Seq2("list", Num(k), Num(k))>>>>

\* The polygon get_body writes into "aoi" for the collection it is given (the
\* first corner of the "pneo" one, in whole degrees).
BuiltInAoi == <<<<Seq2("list", Num(17), Num(-1))>>>>

\* The geometry of the order request when post_submit_order is passed coords:
\* the function hands get_body the collection id and the bundle details only,
\* and never reads its coordinates parameter.
RequestAoi(coords) == BuiltInAoi

PollIdle ==
    /\ pvariant = "none" /\ timeout = 0 /\ polling_interval = 0
    /\ clock = 0 /\ start_time = 0 /\ ppc = "idle"
    /\ landing = {} /\ response = {}

FnIdle ==
    /\ fname = "none" /\ args = <<>> /\ result = "none" /\ fpc = "idle"

Init ==
    /\ variant \in {"optical", "sar"}
    /\ items \in Batches
    /\ idx = 1
    /\ pc = "entry"
    /\ coordinates \in AoiInputs
    /\ notified = [k \in DOMAIN items |-> {}]
    /\ order_id = None
    /\ files = 0
    /\ outFile = [k \in DOMAIN items |-> <<>>]
    /\ bucket = [k \in DOMAIN items |-> <<items[k]>>]
    /\ vendorBusy \in BOOLEAN
    /\ sent = FALSE
    /\ ingested = FALSE
    /\ trail = [k \in DOMAIN items |-> <<Status(items[k])>>]
    /\ branch = [k \in DOMAIN items |-> "none"]
    /\ returnedId = [k \in DOMAIN items |-> None]
    /\ PollIdle
    /\ FnIdle

---------------------------------------------------------------------------
(* main: one action per statement group of the loop body *)

Append1(f, k, x) == [f EXCEPT ![k] = Append(@, x)]

\* End of the loop body for item idx: the for loop takes the next item, or
\* main ends.
NextItem ==
    /\ idx' = idx + 1
    /\ pc' = IF idx < Len(items) THEN "start" ELSE "returned"
    /\ vendorBusy' \in (IF idx < Len(items) THEN BOOLEAN ELSE {vendorBusy})
    /\ sent' = FALSE
    /\ ingested' = FALSE
    /\ order_id' = None
    /\ files' = 0

\* update_stac_item_failure called from an except block (or, w = "ok", from
\* anywhere): the document is changed, then written; an exception of the write
\* leaves main, and "return" ends main.
FailAndReturn(reason, oid, how, w) ==
    /\ items' = [items EXCEPT ![idx] = update_stac_item_failure(@, reason, oid)]
    /\ trail' = Append1(trail, idx, Status(items'[idx]))
    /\ outFile' = [outFile EXCEPT ![idx] = Written(@, items'[idx], w)]
    /\ branch' = [branch EXCEPT ![idx] = how]
    /\ pc' = IF w = "ok" THEN "returned" ELSE "crashed"

\* Lines 164-172 of the optical main: the items are prepared, then the
\* coordinates are verified; "if not verify_coordinates(coordinates)" raises
\* ValueError, and an exception of verify_coordinates leaves main as well.  The
\* SAR main never reads its coordinates argument.
EnterMain ==
    /\ pc = "entry"
    /\ pc' = IF variant = "optical" /\ verify_coordinates(coordinates) # "True"
             THEN "aborted" ELSE "start"
    /\ UNCHANGED <<coordinates, notified, variant, items, idx, order_id, files, outFile,
                   bucket, vendorBusy, sent, ingested, trail, branch,
                   returnedId>>
    /\ UNCHANGED besidesMain

\* Lines 179-191 (optical) and 128-139 (SAR): the duplicate guard.  It runs
\* inside the try block, so an exception of its write is handled by the
\* except block of the submission, which records its own reason.
AlreadyInProgress ==
    /\ pc = "start"
    /\ DuplicateGuard(variant, items[idx], vendorBusy)
    /\ \E w \in WriteOutcomes :
          \/ /\ w = "ok"
             /\ FailAndReturn(DUPLICATE, None, "duplicate", "ok")
          \/ /\ w # "ok"
             /\ \E w2 \in WriteOutcomes :
                   /\ items' = [items EXCEPT ![idx] =
                          update_stac_item_failure(
                              update_stac_item_failure(@, DUPLICATE, None),
                              SUBMIT_FAILED, None)]
                   /\ trail' = Append1(Append1(trail, idx,
                          Status(update_stac_item_failure(items[idx], DUPLICATE, None))),
                          idx, Status(items'[idx]))
                   /\ outFile' = [outFile EXCEPT ![idx] =
                          Written(Written(@,
                              update_stac_item_failure(items[idx], DUPLICATE, None),
                              w), items'[idx], w2)]
                   /\ branch' = [branch EXCEPT ![idx] = "duplicate"]
                   /\ pc' = IF w2 = "ok" THEN "returned" ELSE "crashed"
    /\ UNCHANGED <<coordinates, notified, variant, idx, order_id, files, bucket, vendorBusy, sent,
                   ingested, returnedId>>
    /\ UNCHANGED besidesMain

\* Lines 192-216 (optical) and 140-155 (SAR): the submission and its except
\* block.  The optical main first assigns the item's geometry to its own
\* coordinates variable when that is empty.
SubmitOrder ==
    /\ pc = "start"
    /\ ~DuplicateGuard(variant, items[idx], vendorBusy)
    /\ \E o \in SubmitOutcomes(variant), a \in AuthInputs :
          LET r == post_submit_order(o, a) IN
          /\ sent' = r.sent
          /\ IF r.raised
             THEN /\ \E w \in WriteOutcomes :
                        FailAndReturn(SUBMIT_FAILED, None,
                            IF ReachesToken(o) /\ generate_access_token(a).raised
                            THEN "token_error" ELSE "submit_error", w)
                  /\ UNCHANGED <<order_id, returnedId>>
             ELSE /\ order_id' = r.order_id
                  /\ returnedId' = [returnedId EXCEPT ![idx] = r.order_id]
                  /\ pc' = "submitted"
                  /\ UNCHANGED <<items, trail, outFile, branch>>
    /\ coordinates' = IF variant = "optical" /\ coordinates = <<>>
                      THEN ItemGeometry(idx) ELSE coordinates
    /\ UNCHANGED <<notified, variant, idx, files, bucket, vendorBusy, ingested>>
    /\ UNCHANGED besidesMain

\* Lines 218-226 (optical) and 157-165 (SAR): update_stac_item_ordered, which
\* logs and swallows every exception of ingest_stac_item.
RecordOrdered ==
    /\ pc = "submitted"
    /\ items' = [items EXCEPT ![idx] = update_stac_item_ordered(@, order_id)]
    /\ trail' = Append1(trail, idx, Status(items'[idx]))
    /\ \E i \in IngestOutcomes :
          /\ bucket' = IF i = "put_raises" THEN bucket
                        ELSE [bucket EXCEPT ![idx] = <<items'[idx]>>]
          /\ ingested' = (i # "put_raises")
          /\ notified' = IF i = "ok"
                          THEN [notified EXCEPT ![idx] = @ \cup {Status(items'[idx])}]
                          ELSE notified
    /\ pc' = "poll"
    /\ UNCHANGED <<coordinates, variant, idx, order_id, files, outFile, vendorBusy, sent,
                   branch, returnedId>>
    /\ UNCHANGED besidesMain

\* Lines 227-253 (optical) and 166-191 (SAR): the poll, the downloads and
\* their except block.
RetrieveData ==
    /\ pc = "poll"
    /\ \E o \in RetrieveOutcomes :
          IF o = "data"
          THEN /\ files' \in DeliveredFiles
               /\ pc' = "finalize"
               /\ UNCHANGED <<items, trail, outFile, branch>>
          ELSE /\ \E w \in WriteOutcomes :
                     FailAndReturn(RETRIEVE_FAILED, order_id, "retrieval_error", w)
               /\ UNCHANGED files
    /\ UNCHANGED <<coordinates, notified, variant, idx, order_id, bucket, vendorBusy, sent, ingested,
                   returnedId>>
    /\ UNCHANGED besidesMain

\* Lines 254-262 (optical) and 192-200 (SAR): update_stac_item_success, outside
\* every try block: an exception of its write leaves main.
FinalizeSuccess ==
    /\ pc = "finalize"
    /\ items' = [items EXCEPT ![idx] = update_stac_item_success(@, order_id, files)]
    /\ trail' = Append1(trail, idx, Status(items'[idx]))
    /\ \E w \in WriteOutcomes :
          /\ outFile' = [outFile EXCEPT ![idx] = Written(@, items'[idx], w)]
          /\ IF w = "ok"
             THEN /\ branch' = [branch EXCEPT ![idx] = "succeeded"]
                  /\ NextItem
             ELSE /\ branch' = [branch EXCEPT ![idx] = "crash"]
                  /\ pc' = "crashed"
                  /\ UNCHANGED <<idx, vendorBusy, sent, ingested, order_id, files>>
    /\ UNCHANGED <<coordinates, notified, variant, bucket, returnedId>>
    /\ UNCHANGED besidesMain

Next ==
    \/ EnterMain
    \/ AlreadyInProgress
    \/ SubmitOrder
    \/ RecordOrdered
    \/ RetrieveData
    \/ FinalizeSuccess

Spec == Init /\ [][Next]_vars

---------------------------------------------------------------------------
(* Claims about the workflow *)

\* C1: for every status of the vocabulary an item is loaded with, every
\* status change the run writes to the item is one of orderable->ordered,
\* orderable->failed, ordered->succeeded, ordered->failed; so an item loaded
\* as succeeded or failed keeps its status, and the status of an item does not
\* change after the run wrote succeeded or failed to it.
C1_OnlyStateMachineChanges ==
    LET AllowedChanges ==
            {<<"orderable", ORDERED>>, <<"orderable", FAILED>>,
             <<ORDERED, SUCCEEDED>>, <<ORDERED, FAILED>>}
    IN  \A k \in DOMAIN items :
            trail[k][1] \in OrderStatus =>
                \A i \in 1..(Len(trail[k]) - 1) :
                    trail[k][i] # trail[k][i + 1]
                        => <<trail[k][i], trail[k][i + 1]>> \in AllowedChanges

C5_StatusRoundTrip ==
    /\ \A k \in DOMAIN items :
          outFile[k] # <<>> =>
              STACItem_order_status(outFile[k][1]) = Status(outFile[k][1])
    /\ (idx \in DOMAIN items /\ ingested) =>
          STACItem_order_status(bucket[idx][1]) = Status(bucket[idx][1])

\* C6: an item whose submission returned order id X and whose poll or download
\* raised has status failed, order id X and the retrieval failure as its
\* reason, in the run and in its local record, and was never written
\* succeeded.
C6_RetrievalFailureKeepsOrderId ==
    \A k \in DOMAIN items :
        (branch[k] = "retrieval_error" /\ returnedId[k] # None) =>
            /\ Status(items[k]) = FAILED
            /\ OrderId(items[k]) = returnedId[k]
            /\ Reason(items[k]) = RETRIEVE_FAILED
            /\ \A i \in 2..Len(trail[k]) : trail[k][i] # SUCCEEDED
            /\ outFile[k] # <<>> => outFile[k][1] = items[k]

\* The submission of an item returned an order id, its retrieval raised, and
\* main wrote the failure record and returned.
C6_Witness ==
    \E k \in DOMAIN items :
        /\ branch[k] = "retrieval_error"
        /\ returnedId[k] = "SO_new"
        /\ pc = "returned"
        /\ outFile[k] = <<items[k]>>

C8_EveryItemProcessed ==
    pc = "returned" => \A k \in DOMAIN items : branch[k] # "none"


\* C12: when the coordinates given to the optical main fail verify_coordinates
\* (it returns False or raises), main ends before the loop: no order request
\* has been made and no item document has been changed or written, whatever
\* the size of the batch.
C12_InvalidCoordinatesAbortBeforeAnyItem ==
    LET Good(c) ==
            /\ c.type \in {"list", "tuple"}
            /\ Len(c.items) = 2
            /\ c.items[1].type \in Numeric /\ c.items[2].type \in Numeric
            /\ -180 <= c.items[1].val /\ c.items[1].val <= 180
            /\ -90 <= c.items[2].val /\ c.items[2].val <= 90
        AllGood ==
            \A i \in DOMAIN coordinates :
                \A j \in DOMAIN coordinates[i] : Good(coordinates[i][j])
    IN  (variant = "optical" /\ ~AllGood) =>
            /\ pc \in {"entry", "aborted"}
            /\ ~sent
            /\ \A k \in DOMAIN items :
                  /\ bucket[k] = <<items[k]>>
                  /\ outFile[k] = <<>>
                  /\ Len(trail[k]) = 1

\* The optical main, given a batch of two items and coordinates with a pair
\* out of range, has raised.
C12_Witness ==
    /\ variant = "optical"
    /\ pc = "aborted"
    /\ Len(items) = 2
    /\ verify_coordinates(coordinates) = "False"

\* C14: the document the run writes for an item failed by the duplicate guard
\* (the failure record of the guard being the only status write made to the
\* item) has status failed, the duplicate reason and no order id, whatever
\* order id the loaded document carried.
C14_DuplicateFailureHasNoOrderId ==
    \A k \in DOMAIN items :
        (branch[k] = "duplicate" /\ Len(trail[k]) = 2 /\ outFile[k] # <<>>) =>
            /\ Status(outFile[k][1]) = FAILED
            /\ Reason(outFile[k][1]) = DUPLICATE
            /\ OrderId(outFile[k][1]) = None

\* C15: a notification event has been sent for the terminal status of every
\* item the run finalized, as succeeded or as failed.
C15_TerminalOutcomeNotified ==
    \A k \in DOMAIN items :
        (branch[k] \in {"succeeded", "duplicate", "submit_error", "token_error",
                        "retrieval_error"}
           /\ outFile[k] = <<items[k]>>)
        => Status(items[k]) \in notified[k]

C21_TokenFailureIsSubmissionFailure ==
    \A k \in DOMAIN items :
        branch[k] = "token_error" =>
            /\ k = idx
            /\ pc \in {"returned", "crashed"}
            /\ ~sent
            /\ returnedId[k] = None
            /\ Status(items[k]) = FAILED
            /\ Reason(items[k]) = SUBMIT_FAILED
            /\ \A i \in DOMAIN trail[k] : i > 1 => trail[k][i] = FAILED
            /\ Status(bucket[k][1]) = trail[k][1]

\* The token request of the second item of a batch failed and the failed
\* document was written.
C21_Witness ==
    /\ Len(items) = 2
    /\ branch[2] = "token_error"
    /\ pc = "returned"
    /\ outFile[2] # <<>>

---------------------------------------------------------------------------
(* poll_s3_for_data: airbus/common/s3_utils.py ("common"),                 *)
(* planet_adaptor/s3_utils.py ("planet"), airbus-sar/airbus_sar_adaptor/   *)
(* s3_utils.py ("sar") and airbus-sar/airbus-sar-adaptor/__main__.py       *)
(* ("legacy").  The clock is time.time() in whole seconds; it stops at     *)
(* MaxClock, which is later than every end_time, so a poller with a        *)
(* timeout cannot tell the stopped clock from a running one.               *)

MaxTimeout == 3
MaxInterval == 4
MaxStart == 1
MaxClock == MaxStart + MaxTimeout + MaxInterval + 2

PollVariants == {"common", "planet", "sar", "legacy"}

\* Keys the vendor may put under the polled prefix: one with the suffix the
\* poller waits for (the archive, manifest.json), one without.
Keys == {"match", "other"}

\* The objects of a listing the variant takes as the arrival of the data.
matching_objects(v, contents) ==
    IF v \in {"common", "planet"} THEN contents \cap {"match"} ELSE contents

\* end_time with the timeout left out.
end_time_no_timeout(start, t) == start

end_time(start, t) == start + t

Tick(d) == IF clock + d > MaxClock THEN MaxClock ELSE clock + d

\* time.sleep(polling_interval) returns after the interval or later, and the
\* clock has moved when it returns.
SleepTimes == {polling_interval, polling_interval + 1} \ {0}

WorkflowIdle ==
    /\ variant = "none" /\ items = <<>> /\ idx = 0 /\ pc = "idle"
    /\ order_id = None /\ files = 0 /\ outFile = <<>> /\ bucket = <<>>
    /\ vendorBusy = FALSE /\ sent = FALSE /\ ingested = FALSE
    /\ trail = <<>> /\ branch = <<>> /\ returnedId = <<>>
    /\ coordinates = <<>> /\ notified = <<>>

\* A call of poll_s3_for_data after start_time = time.time().
PollInit ==
    /\ WorkflowIdle
    /\ FnIdle
    /\ pvariant \in PollVariants
    /\ timeout \in (-1)..MaxTimeout
    /\ polling_interval \in 0..MaxInterval
    /\ clock \in 0..MaxStart
    /\ start_time = clock
    /\ ppc = "list"
    /\ landing \in SUBSET Keys
    /\ response = {}

\* s3.list_objects_v2 at the head of the loop.
PollList ==
    /\ ppc = "list"
    /\ response' = landing
    /\ \E d \in {0, 1} : clock' = Tick(d)
    /\ ppc' = "check"
    /\ UNCHANGED <<pvariant, timeout, polling_interval, start_time, landing>>
    /\ UNCHANGED besidesPoll

\* A loop body that tests the timeout before it looks at the listing.
PollCheck_timeout_first ==
    /\ ppc = "check"
    /\ ppc' = IF pvariant # "legacy" /\ clock > end_time(start_time, timeout)
                 THEN "raised"
              ELSE IF matching_objects(pvariant, response) # {}
                 THEN (IF pvariant = "common" THEN "settle" ELSE "returned")
              ELSE "sleep"
    /\ UNCHANGED <<pvariant, timeout, polling_interval, clock, start_time,
                   landing, response>>
    /\ UNCHANGED besidesPoll

\* The tests of the loop body on the listing: data found, timeout, or sleep.
PollCheck ==
    /\ ppc = "check"
    /\ ppc' = IF matching_objects(pvariant, response) # {}
                 THEN (IF pvariant = "common" THEN "settle" ELSE "returned")
              ELSE IF pvariant # "legacy" /\ clock > end_time(start_time, timeout)
                 THEN "raised"
              ELSE "sleep"
    /\ UNCHANGED <<pvariant, timeout, polling_interval, clock, start_time,
                   landing, response>>
    /\ UNCHANGED besidesPoll

\* time.sleep(polling_interval) at the foot of the loop.
PollSleep ==
    /\ ppc = "sleep"
    /\ \E d \in SleepTimes : clock' = Tick(d)
    /\ ppc' = "list"
    /\ UNCHANGED <<pvariant, timeout, polling_interval, start_time, landing,
                   response>>
    /\ UNCHANGED besidesPoll

\* The common variant after a match: sleep, list again, return that listing.
PollSettle ==
    /\ ppc = "settle"
    /\ \E d \in SleepTimes : clock' = Tick(d)
    /\ response' = matching_objects(pvariant, landing)
    /\ ppc' = "returned"
    /\ UNCHANGED <<pvariant, timeout, polling_interval, start_time, landing>>
    /\ UNCHANGED besidesPoll

\* The vendor delivers an object under the prefix.
Arrive ==
    /\ ppc \notin {"returned", "raised"}
    /\ \E key \in Keys \ landing : landing' = landing \cup {key}
    /\ UNCHANGED <<pvariant, timeout, polling_interval, clock, start_time,
                   ppc, response>>
    /\ UNCHANGED besidesPoll

\* An object under the prefix is deleted.
Remove ==
    /\ ppc \notin {"returned", "raised"}
    /\ \E key \in landing : landing' = landing \ {key}
    /\ UNCHANGED <<pvariant, timeout, polling_interval, clock, start_time,
                   ppc, response>>
    /\ UNCHANGED besidesPoll

PollStep == PollList \/ PollCheck \/ PollSleep \/ PollSettle

PollNext ==
    \/ PollList
    \/ PollCheck
    \/ PollSleep
    \/ PollSettle
    \/ Arrive
    \/ Remove

PollSpec == PollInit /\ [][PollNext]_vars

\* The interpreter keeps running the call: a step of the poller that can be
\* taken is taken.
PollFairSpec == PollSpec /\ WF_vars(PollStep)

---------------------------------------------------------------------------
(* Claims about the pollers *)

\* C9: a poller call raises PollingTimeoutError only when the time elapsed
\* since the call started is at least the timeout, for every polling interval
\* (larger than the timeout too) and for timeout 0.
C9_NoEarlyTimeout ==
    ppc = "raised" => clock - start_time >= timeout

\* A call with a polling interval larger than its timeout has raised.
C9_Witness ==
    /\ ppc = "raised"
    /\ polling_interval > timeout
    /\ start_time > 0

\* C10: for every poller variant, a call during which no matching object ever
\* appears ends by raising PollingTimeoutError.
C10_EveryVariantTimesOut ==
    [](matching_objects(pvariant, landing) = {}) => <>(ppc = "raised")

\* C29: a poller call starts with a listing, also when its timeout is 0 or
\* negative; the tests of the loop body always act on the listing made just
\* before them; every sleep is followed by a listing; and
\* PollingTimeoutError is raised only by the tests of a listing that held no
\* match, so data seen by the last listing is returned, never timed out.
C29_TimeoutOnlyAfterEmptyListing ==
    [][/\ (ppc' = "check" /\ ppc # "check") => (ppc = "list" /\ response' = landing)
       /\ (ppc = "sleep" /\ ppc' # "sleep") => ppc' = "list"
       /\ (ppc' = "raised" /\ ppc # "raised") =>
              /\ ppc = "check"
              /\ matching_objects(pvariant, response) = {}
              /\ response' = response
       /\ (ppc = "check" /\ matching_objects(pvariant, response) # {}) =>
              ppc' \in {"check", "settle", "returned"}]_vars

\* A call with a timeout that is not positive has raised after its listing,
\* and the data arrived between that listing and the timeout test.
C29_Witness ==
    /\ ppc = "raised"
    /\ timeout <= 0
    /\ response = {}
    /\ "match" \in landing

\* C24: whenever the Airbus poll_s3_for_data returns, the returned list is
\* non-empty and holds only keys with the suffix, also when objects under the
\* prefix come and go during the wait between its two listings.
C24_ReturnedListNonEmpty ==
    (pvariant = "common" /\ ppc = "returned") =>
        /\ response # {}
        /\ response \subseteq {"match"}

---------------------------------------------------------------------------
(* verify_coordinates called on its own *)

CoordInit ==
    /\ WorkflowIdle
    /\ PollIdle
    /\ fname = "verify_coordinates"
    /\ args \in CoordinateLists
    /\ result = "none"
    /\ fpc = "call"

VerifyCoordinates ==
    /\ fname = "verify_coordinates"
    /\ fpc = "call"
    /\ result' = verify_coordinates(args)
    /\ fpc' = "done"
    /\ UNCHANGED <<fname, args>>
    /\ UNCHANGED <<wfVars, pollVars>>

CoordNext == VerifyCoordinates

CoordSpec == CoordInit /\ [][CoordNext]_vars

\* C11: verify_coordinates returns True when every pair of every polygon is a
\* list or tuple of two numbers with longitude in [-180,180] and latitude in
\* [-90,90], and returns False, without raising, when some pair is out of
\* range or malformed.
C11_VerifyCoordinatesIsBoolean ==
    LET Good(c) ==
            /\ c.type \in {"list", "tuple"}
            /\ Len(c.items) = 2
            /\ c.items[1].type \in Numeric /\ c.items[2].type \in Numeric
            /\ -180 <= c.items[1].val /\ c.items[1].val <= 180
            /\ -90 <= c.items[2].val /\ c.items[2].val <= 90
        AllGood ==
            \A i \in DOMAIN args : \A j \in DOMAIN args[i] : Good(args[i][j])
    IN  (fname = "verify_coordinates" /\ fpc = "done") =>
            result = IF AllGood THEN "True" ELSE "False"

---------------------------------------------------------------------------
(* prepare_stac_items_to_order of airbus_optical_adaptor/__main__.py.  The  *)
(* item files of the catalogues are named after their acquisition id; args *)
(* is the list of item paths of the catalogues and, per file, the          *)
(* composed_of_acquisition_identifiers of its document.                     *)

MaxFiles == 3
MaxMembers == 2

FileIds == {"A", "B"}

\* An acquisition id no item file of the catalogues carries.
ABSENT == "X"

MemberLists == UNION {[1..n -> FileIds \cup {ABSENT}] : n \in 0..MaxMembers}

Range(f) == {f[i] : i \in DOMAIN f}

SelectSeq2(seq, drop) ==
    LET Keep(x) == x.acquisition_id \notin drop IN SelectSeq(seq, Keep)

\* A lookup of the members that stops after the first one.
MissingMember_first_only(multi, known) == multi[1] \notin known

\* Some member has no entry in acquisition_id_to_path.
MissingMember(multi, known) == \E i \in DOMAIN multi : multi[i] \notin known

\* One pass of the loop over stac_item_paths, on the list built so far:
\* the new list, or "ValueError".
RECURSIVE AddItems(_, _, _, _)
AddItems(paths, docs, known, stac_items) ==
    IF paths = <<>> THEN [raised |-> "no", value |-> stac_items]
    ELSE LET id == Head(paths)
             multi == docs[id]
         IN  IF \E i \in DOMAIN stac_items : id \in Range(stac_items[i].multi)
             THEN \* already part of a multi-acquisition item: continue
                  AddItems(Tail(paths), docs, known, stac_items)
             ELSE IF multi # <<>>
             THEN IF MissingMember(multi, known)
                  THEN [raised |-> "ValueError", value |-> <<>>]
                  ELSE AddItems(Tail(paths), docs, known,
                           Append(SelectSeq2(stac_items, Range(multi)),
                                  [acquisition_id |-> id, multi |-> multi,
                                   item_uuids |-> multi]))
             ELSE AddItems(Tail(paths), docs, known,
                      Append(stac_items,
                             [acquisition_id |-> id, multi |-> multi,
                              item_uuids |-> <<id>>]))

\* No item path at all is a ValueError of its own.
prepare_stac_items_to_order(paths, docs) ==
    IF paths = <<>> THEN [raised |-> "ValueError", value |-> <<>>]
    ELSE AddItems(paths, docs, Range(paths), <<>>)

PrepInit ==
    /\ WorkflowIdle
    /\ PollIdle
    /\ fname = "prepare_stac_items_to_order"
    /\ args \in {[paths |-> ps, docs |-> ds] :
                    ps \in UNION {[1..n -> FileIds] : n \in 0..MaxFiles},
                    ds \in [FileIds -> MemberLists]}
    /\ result = [raised |-> "none", value |-> <<>>]
    /\ fpc = "call"

PrepareItems ==
    /\ fname = "prepare_stac_items_to_order"
    /\ fpc = "call"
    /\ result' = prepare_stac_items_to_order(args.paths, args.docs)
    /\ fpc' = "done"
    /\ UNCHANGED <<fname, args>>
    /\ UNCHANGED <<wfVars, pollVars>>

PrepNext == PrepareItems

PrepSpec == PrepInit /\ [][PrepNext]_vars

---------------------------------------------------------------------------
(* prepare_stac_items_to_order on catalogues of three files, each listed   *)
(* once, whose groups may have groups as members.                          *)

MaxNested == 1

GroupIds == {"A", "B", "C"}

GroupPaths ==
    {ps \in UNION {[1..n -> GroupIds] : n \in 0..MaxFiles} :
        \A i, j \in DOMAIN ps : i # j => ps[i] # ps[j]}

GroupDocs == [GroupIds -> UNION {[1..n -> GroupIds] : n \in 0..MaxNested}]

GroupInit ==
    /\ WorkflowIdle
    /\ PollIdle
    /\ fname = "prepare_stac_items_to_order"
    /\ args \in {[paths |-> ps, docs |-> ds] : ps \in GroupPaths, ds \in GroupDocs}
    /\ result = [raised |-> "none", value |-> <<>>]
    /\ fpc = "call"

GroupSpec == GroupInit /\ [][PrepNext]_vars

\* C27: the list prepare_stac_items_to_order returns never holds two distinct
\* items of which one is listed among the acquisitions the other is composed
\* of; and every input item that no returned item lists as a member, and that
\* no later input item lists as a member either, is returned exactly once.
C27_NoMemberBesideItsGroup ==
    (fname = "prepare_stac_items_to_order" /\ fpc = "done" /\ result.raised = "no") =>
        LET out == result.value IN
        /\ \A i, j \in DOMAIN out :
              i # j => out[i].acquisition_id \notin Range(out[j].multi)
        /\ \A p \in DOMAIN args.paths :
              (/\ \A k \in DOMAIN out : args.paths[p] \notin Range(out[k].multi)
               /\ \A q \in DOMAIN args.paths :
                     q > p => args.paths[p] \notin Range(args.docs[args.paths[q]]))
              => Cardinality({k \in DOMAIN out :
                                 out[k].acquisition_id = args.paths[p]}) = 1

---------------------------------------------------------------------------
(* write_stac_item_and_catalog of airbus/common/stac_utils.py              *)
(* (planet_adaptor/stac_utils.py differs in the names "planet"/"airbus"    *)
(* only): the links of the three documents it writes.  args is the file    *)
(* name and the copies of catalog and collection in the workspace bucket:  *)
(* <<>> when get_object raises, else <<links of the stored document>>.     *)

Link(rel, href) == [rel |-> rel, href |-> href]

FileNames == {"a.json", "b.json"}

\* Links a stored catalog or collection may carry.
StoredLinks ==
    {<<>>,
     <<Link("self", "catalog.json"), Link("child", "collection.json")>>,
     <<Link("item", "a.json")>>,
     <<Link("item", "a.json"), Link("item", "b.json")>>,
     <<Link("self", "collection.json"), Link("root", "catalog.json"),
       Link("parent", "catalog.json"), Link("item", "b.json")>>}

RemoteCopies == {<<>>} \cup {<<l>> : l \in StoredLinks}

\* The document the function goes on with: the stored one, or the default
\* with "links": [].
Retrieved(remote) == IF remote = <<>> THEN <<>> ELSE remote[1]

\* A regeneration that adds its links to those of the retrieved document.
write_stac_item_and_catalog_append(stac_item_filename, catalog, collection) ==
    [item |-> <<Link("self", stac_item_filename), Link("parent", "catalog.json")>>,
     catalog |-> Retrieved(catalog) \o
         <<Link("self", "catalog.json"), Link("child", "collection.json")>>,
     collection |-> Retrieved(collection) \o
         <<Link("self", "collection.json"), Link("root", "catalog.json"),
           Link("parent", "catalog.json"), Link("item", stac_item_filename)>>]

\* The links lists of the item, catalog.json and collection.json written.
write_stac_item_and_catalog(stac_item_filename, catalog, collection) ==
    [item |-> <<Link("self", stac_item_filename), Link("parent", "catalog.json")>>,
     catalog |->
         <<Link("self", "catalog.json"), Link("child", "collection.json")>>,
     collection |->
         <<Link("self", "collection.json"), Link("root", "catalog.json"),
           Link("parent", "catalog.json"), Link("item", stac_item_filename)>>]

CatalogInit ==
    /\ WorkflowIdle
    /\ PollIdle
    /\ fname = "write_stac_item_and_catalog"
    /\ args \in [file_name : FileNames, catalog : RemoteCopies,
                  collection : RemoteCopies]
    /\ result = <<>>
    /\ fpc = "call"

\* The first call: the local files are written.
WriteCatalog ==
    /\ fname = "write_stac_item_and_catalog"
    /\ fpc = "call"
    /\ result' = <<write_stac_item_and_catalog(args.file_name, args.catalog,
                                                args.collection)>>
    /\ fpc' = "again"
    /\ UNCHANGED <<fname, args>>
    /\ UNCHANGED <<wfVars, pollVars>>

\* The second call, on the same arguments and the same stored copies.
WriteCatalogAgain ==
    /\ fname = "write_stac_item_and_catalog"
    /\ fpc = "again"
    /\ result' = Append(result,
                        write_stac_item_and_catalog(args.file_name, args.catalog,
                                                    args.collection))
    /\ fpc' = "done"
    /\ UNCHANGED <<fname, args>>
    /\ UNCHANGED <<wfVars, pollVars>>

CatalogNext == WriteCatalog \/ WriteCatalogAgain

CatalogSpec == CatalogInit /\ [][CatalogNext]_vars

---------------------------------------------------------------------------
(* The writes of write_stac_item_and_catalog in a run of main that         *)
(* finalizes two items: args is the file names of the two items and the    *)
(* stored copies, result the links written by each call in turn; the       *)
(* files catalog.json and collection.json hold what the last call wrote.   *)

BatchInit ==
    /\ WorkflowIdle
    /\ PollIdle
    /\ fname = "main_finalizes"
    /\ args \in [first : FileNames, second : FileNames,
                  catalog : RemoteCopies, collection : RemoteCopies]
    /\ result = <<>>
    /\ fpc = "first"

\* update_stac_item_success of the first item ends with the write.
FinalizeFirst ==
    /\ fname = "main_finalizes"
    /\ fpc = "first"
    /\ result' = <<write_stac_item_and_catalog(args.first, args.catalog,
                                                args.collection)>>
    /\ fpc' = "second"
    /\ UNCHANGED <<fname, args>>
    /\ UNCHANGED <<wfVars, pollVars>>

\* The same for the second item, into the same working directory.
FinalizeSecond ==
    /\ fname = "main_finalizes"
    /\ fpc = "second"
    /\ result' = Append(result,
                        write_stac_item_and_catalog(args.second, args.catalog,
                                                    args.collection))
    /\ fpc' = "done"
    /\ UNCHANGED <<fname, args>>
    /\ UNCHANGED <<wfVars, pollVars>>

BatchNext == FinalizeFirst \/ FinalizeSecond

BatchSpec == BatchInit /\ [][BatchNext]_vars

\* C28: after a call of write_stac_item_and_catalog the collection written
\* links to self, root, parent and the item just written and to nothing else,
\* and the catalog to self and child, whatever the stored copies held; after
\* the second item of a batch the collection has the second item as its only
\* item link.
C28_CollectionLinksLastItemOnly ==
    (fname = "main_finalizes" /\ result # <<>>) =>
        LET last == result[Len(result)]
            written == IF Len(result) = 1 THEN args.first ELSE args.second
        IN  /\ last.collection =
                   <<Link("self", "collection.json"), Link("root", "catalog.json"),
                     Link("parent", "catalog.json"), Link("item", written)>>
            /\ last.catalog =
                   <<Link("self", "catalog.json"), Link("child", "collection.json")>>
            /\ {l \in Range(last.collection) : l.rel = "item"} = {Link("item", written)}

\* Both items of a batch are finalized, under different file names, and the
\* stored collection carried an item link of an earlier order.
C28_Witness ==
    /\ fname = "main_finalizes" /\ fpc = "done"
    /\ args.first # args.second
    /\ args.collection # <<>>
    /\ \E l \in Range(args.collection[1]) : l.rel = "item"
    /\ Link("item", args.first) \notin Range(result[2].collection)

---------------------------------------------------------------------------
(* is_order_in_progress of airbus-sar/airbus_sar_adaptor/api_utils.py      *)
(* called on its own: args is <<acquisition_id, status>>, status being     *)
(* the list post_items_status returned.                                    *)

MaxRecords == 3

Acquisitions == {"A", "B"}

\* Vendor statuses of an order item: "submitted" is the one the code tests
\* for, "delivered" stands for the finished ones.
VendorStatuses == {"submitted", "delivered"}

Features == [acquisitionId : Acquisitions, status : VendorStatuses]

RECURSIVE ListsUpTo(_, _)
ListsUpTo(S, n) ==
    IF n = 0 THEN {<<>>}
    ELSE LET shorter == ListsUpTo(S, n - 1)
         IN  shorter \cup {Append(l, x) : l \in {t \in shorter : Len(t) = n - 1}, x \in S}

StatusLists == ListsUpTo(Features, MaxRecords)

\* The loop of is_order_in_progress: the first feature of the acquisition
\* decides; "False" when there is none.
RECURSIVE airbus_sar_is_order_in_progress(_, _)
airbus_sar_is_order_in_progress(acquisition_id, status) ==
    IF status = <<>> THEN "False"
    ELSE IF Head(status).acquisitionId = acquisition_id
         THEN IF Head(status).status = "submitted" THEN "True" ELSE "False"
         ELSE airbus_sar_is_order_in_progress(acquisition_id, Tail(status))

StatusInit ==
    /\ WorkflowIdle
    /\ PollIdle
    /\ fname = "is_order_in_progress"
    /\ args \in {<<a, l>> : a \in Acquisitions, l \in StatusLists}
    /\ result = "none"
    /\ fpc = "call"

IsOrderInProgress ==
    /\ fname = "is_order_in_progress"
    /\ fpc = "call"
    /\ result' = airbus_sar_is_order_in_progress(args[1], args[2])
    /\ fpc' = "done"
    /\ UNCHANGED <<fname, args>>
    /\ UNCHANGED <<wfVars, pollVars>>

StatusNext == IsOrderInProgress

StatusSpec == StatusInit /\ [][StatusNext]_vars

\* C18: is_order_in_progress returns true exactly when the status list holds
\* a record of the acquisition with a non-terminal status, wherever that
\* record stands among the records of the acquisition.
C18_TrueIffSomeRecordInProgress ==
    (fname = "is_order_in_progress" /\ fpc = "done") =>
        (result = "True" <=>
            \E i \in DOMAIN args[2] :
                /\ args[2][i].acquisitionId = args[1]
                /\ args[2][i].status = "submitted")

---------------------------------------------------------------------------
(* Two invocations of main of airbus-sar/airbus_sar_adaptor for the same   *)
(* acquisition, up to the return of post_submit_order.  args is the list   *)
(* the vendor reports, fpc and result are per invocation.                  *)

MaxStanding == 1

Procs == {1, 2}

\* The acquisition both invocations order.
Wanted == "A"

\* How many records of the acquisition a status list holds.
Held(status) ==
    Cardinality({i \in DOMAIN status : status[i].acquisitionId = Wanted})

\* What an invocation knows: the answer of its check, how many records of
\* the acquisition the vendor held when it checked, and the item id of its
\* order.
NotChecked == [in_progress |-> "none", seen |-> 0, item_id |-> None]

RaceInit ==
    /\ WorkflowIdle
    /\ PollIdle
    /\ fname = "main"
    /\ args \in ListsUpTo(Features, MaxStanding)
    /\ fpc = [p \in Procs |-> "check"]
    /\ result = [p \in Procs |-> NotChecked]

\* An invocation that goes on to submit whatever its check answered.
CheckInProgress_unguarded(p) ==
    /\ fname = "main"
    /\ fpc[p] = "check"
    /\ \E outcome \in {"ok", "raises"} :
          IF outcome = "raises"
          THEN /\ fpc' = [fpc EXCEPT ![p] = "failed"]
               /\ result' = result
          ELSE /\ result' = [result EXCEPT ![p].in_progress =
                                  airbus_sar_is_order_in_progress(Wanted, args),
                                            ![p].seen = Held(args)]
               /\ fpc' = [fpc EXCEPT ![p] = "submit"]
    /\ UNCHANGED <<fname, args>>
    /\ UNCHANGED <<wfVars, pollVars>>

\* if is_order_in_progress(acquisition_id, env): update_stac_item_failure and
\* return.  The status request may raise, which ends in the except clause.
CheckInProgress(p) ==
    /\ fname = "main"
    /\ fpc[p] = "check"
    /\ \E outcome \in {"ok", "raises"} :
          IF outcome = "raises"
          THEN /\ fpc' = [fpc EXCEPT ![p] = "failed"]
               /\ result' = result
          ELSE LET answer == airbus_sar_is_order_in_progress(Wanted, args)
               IN  /\ result' = [result EXCEPT ![p].in_progress = answer,
                                                ![p].seen = Held(args)]
                   /\ fpc' = [fpc EXCEPT ![p] =
                                  IF answer = "True" THEN "failed" ELSE "submit"]
    /\ UNCHANGED <<fname, args>>
    /\ UNCHANGED <<wfVars, pollVars>>

\* item_id = post_submit_order(acquisition_id, env): the vendor accepts the
\* order and reports it from then on, at either end of its list, or rejects
\* the request and raise_for_status raises.
Submit(p) ==
    /\ fname = "main"
    /\ fpc[p] = "submit"
    /\ \E outcome \in {"accepted_first", "accepted_last", "rejected"} :
          LET record == [acquisitionId |-> Wanted, status |-> "submitted"]
          IN  CASE outcome = "accepted_first" ->
                     /\ args' = <<record>> \o args
                     /\ fpc' = [fpc EXCEPT ![p] = "ordered"]
                     /\ result' = [result EXCEPT ![p].item_id = "item"]
                [] outcome = "accepted_last" ->
                     /\ args' = Append(args, record)
                     /\ fpc' = [fpc EXCEPT ![p] = "ordered"]
                     /\ result' = [result EXCEPT ![p].item_id = "item"]
                [] OTHER ->
                     /\ fpc' = [fpc EXCEPT ![p] = "failed"]
                     /\ UNCHANGED <<args, result>>
    /\ UNCHANGED fname
    /\ UNCHANGED <<wfVars, pollVars>>

\* The vendor delivers an order it had accepted.
VendorDelivers ==
    /\ fname = "main"
    /\ \E i \in DOMAIN args :
          /\ args[i].status = "submitted"
          /\ args' = [args EXCEPT ![i].status = "delivered"]
    /\ UNCHANGED <<fname, result, fpc>>
    /\ UNCHANGED <<wfVars, pollVars>>

RaceNext ==
    \/ \E p \in Procs : CheckInProgress(p)
    \/ \E p \in Procs : Submit(p)
    \/ VendorDelivers

RaceSpec == RaceInit /\ [][RaceNext]_vars

\* C19: the in-progress check holds an invocation back only through the
\* answer it got when it asked: an invocation answered "in progress" fails
\* without an order, an invocation that has ordered was answered "not in
\* progress", and nothing else keeps two invocations from both ordering.
C19_CheckThenSubmitNotAtomic ==
    fname = "main" =>
        \A p \in Procs :
            /\ fpc[p] \in {"submit", "ordered"} => result[p].in_progress = "False"
            /\ result[p].in_progress = "True" =>
                   fpc[p] = "failed" /\ result[p].item_id = None

\* Both invocations checked while the vendor held no record of the
\* acquisition, before either submitted, and the vendor now holds two
\* submitted orders for it.
C19_Witness ==
    /\ fname = "main"
    /\ \A p \in Procs :
          /\ fpc[p] = "ordered"
          /\ result[p].in_progress = "False"
          /\ result[p].seen = 0
    /\ Held(args) = 2
    /\ \A i \in DOMAIN args :
          args[i].acquisitionId = Wanted => args[i].status = "submitted"

---------------------------------------------------------------------------
(* The asset loop of update_stac_item_success: airbus/common/stac_utils.py *)
(* ("airbus") and planet_adaptor/__main__.py ("planet").  A file is its    *)
(* directory and its base name; a name is the sequence of its parts, so    *)
(* that <<"report.xml", 1>> is the string "report.xml_1".  args is the     *)
(* variant and the set of files of the delivery directory, result the      *)
(* assets map as a set of [name, href].                                    *)

MaxDelivered == 3

\* os.walk visits the directory itself, then its subdirectory.
DirOrder == <<"top", "sub">>

\* Base names in sorted order.
BaseOrder ==
    <<<<"logo.jpg">>, <<"order.tar.gz">>, <<"order.zip">>, <<"report.xml">>,
      <<"report.xml", 1>>>>

DeliveredPaths ==
    {[dir |-> DirOrder[d], base |-> BaseOrder[b]] :
        d \in DOMAIN DirOrder, b \in DOMAIN BaseOrder}

Deliveries == {fs \in SUBSET DeliveredPaths : Cardinality(fs) <= MaxDelivered}

\* The sequences that list every element of S once.
RECURSIVE Perms(_)
Perms(S) ==
    IF S = {} THEN {<<>>}
    ELSE UNION {{<<x>> \o q : q \in Perms(S \ {x})} : x \in S}

Position(order, x) == CHOOSE i \in DOMAIN order : order[i] = x

IsSorted(q) ==
    \A i, j \in DOMAIN q :
        i < j => Position(BaseOrder, q[i].base) < Position(BaseOrder, q[j].base)

InDir(fs, d) == {f \in fs : f.dir = d}

\* The orders in which os.walk can yield the files: directory by directory,
\* the files of a directory in the order of the listing.
WalkOrders(fs) ==
    {a \o b : a \in Perms(InDir(fs, DirOrder[1])), b \in Perms(InDir(fs, DirOrder[2]))}

\* The one order of the Airbus loop, which sorts dirs and files.
SortedWalk(fs) ==
    CHOOSE q \in WalkOrders(fs) :
        \E a \in Perms(InDir(fs, DirOrder[1])), b \in Perms(InDir(fs, DirOrder[2])) :
            q = a \o b /\ IsSorted(a) /\ IsSorted(b)

\* get_asset_details for the optical patterns: "logo" for logo.jpg, else the
\* base name.
get_asset_details(f) ==
    IF f.base = <<"logo.jpg">> THEN <<"logo">> ELSE f.base

\* stac_item["assets"][asset_name] = {"href": ...}: an entry under an
\* existing key is replaced.
SetAsset(assets, asset_name, href) ==
    {e \in assets : e.name # asset_name} \cup {[name |-> asset_name, href |-> href]}

\* The Airbus loop over the walk q from position i, with the assets and the
\* name_counter so far (a set of [name, count]).
RECURSIVE AirbusAssets(_, _, _, _)
AirbusAssets(q, i, assets, name_counter) ==
    IF i > Len(q) THEN assets
    ELSE LET derived == get_asset_details(q[i])
             seen == {c \in name_counter : c.name = derived}
         IN  IF seen # {}
             THEN LET n == (CHOOSE c \in seen : TRUE).count + 1
                  IN  AirbusAssets(q, i + 1,
                          SetAsset(assets, Append(derived, n), q[i]),
                          (name_counter \ seen) \cup {[name |-> derived, count |-> n]})
             ELSE AirbusAssets(q, i + 1,
                      SetAsset(assets, derived, q[i]),
                      name_counter \cup {[name |-> derived, count |-> 0]})

\* The Planet loop: the key is os.path.basename(asset_path).
RECURSIVE PlanetAssets(_, _, _)
PlanetAssets(q, i, assets) ==
    IF i > Len(q) THEN assets
    ELSE PlanetAssets(q, i + 1, SetAsset(assets, q[i].base, q[i]))

AssetInit ==
    /\ WorkflowIdle
    /\ PollIdle
    /\ fname = "update_stac_item_success"
    /\ args \in [variant : {"airbus", "planet"}, files : Deliveries]
    /\ result = {}
    /\ fpc = "call"

AirbusRegisterAssets ==
    /\ fname = "update_stac_item_success"
    /\ fpc = "call"
    /\ args.variant = "airbus"
    /\ result' = AirbusAssets(SortedWalk(args.files), 1, {}, {})
    /\ fpc' = "done"
    /\ UNCHANGED <<fname, args>>
    /\ UNCHANGED <<wfVars, pollVars>>

PlanetRegisterAssets ==
    /\ fname = "update_stac_item_success"
    /\ fpc = "call"
    /\ args.variant = "planet"
    /\ \E q \in WalkOrders(args.files) : result' = PlanetAssets(q, 1, {})
    /\ fpc' = "done"
    /\ UNCHANGED <<fname, args>>
    /\ UNCHANGED <<wfVars, pollVars>>

AssetNext == AirbusRegisterAssets \/ PlanetRegisterAssets

AssetSpec == AssetInit /\ [][AssetNext]_vars

\* C22: after update_stac_item_success has walked a directory of N files,
\* starting from no assets, the assets map has N entries, one per file.
C22_OneAssetPerFile ==
    (fname = "update_stac_item_success" /\ fpc = "done") =>
        /\ Cardinality(result) = Cardinality(args.files)
        /\ {e.href : e \in result} = args.files

---------------------------------------------------------------------------
(* download_and_store_locally followed by update_stac_item_success, as     *)
(* main calls them for one delivered object: airbus/common/s3_utils.py     *)
(* ("airbus") and planet_adaptor/s3_utils.py ("planet").  args is the      *)
(* variant, the base name of the object key and the files the archive      *)
(* holds; result is the destination folder and the assets map.             *)

ArchiveKeys == {<<"order.tar.gz">>, <<"order.zip">>}

ObjectKeys == ArchiveKeys \cup {<<"report.xml">>}

\* What an archive may hold.
Members ==
    SUBSET {[dir |-> "top", base |-> <<"logo.jpg">>],
            [dir |-> "top", base |-> <<"report.xml">>],
            [dir |-> "sub", base |-> <<"report.xml">>]}

\* The suffixes the variant extracts: .tar.gz and .zip (Airbus), .zip only
\* (Planet).
Extracts(v, key) ==
    IF v = "airbus" THEN key \in ArchiveKeys ELSE key = <<"order.zip">>

\* The destination folder after the call: the downloaded object under its
\* base name and, for an archive the variant extracts, its members.
download_and_store_locally(v, key, members) ==
    {[dir |-> "top", base |-> key]}
        \cup (IF Extracts(v, key) THEN members ELSE {})

DeliveryInit ==
    /\ WorkflowIdle
    /\ PollIdle
    /\ fname = "download_and_store_locally"
    /\ args \in [variant : {"airbus", "planet"}, key : ObjectKeys, members : Members]
    /\ result = [folder |-> {}, assets |-> {}]
    /\ fpc = "download"

\* The download and the extraction; either may raise, which main's except
\* clause turns into a failed item.
DownloadAndStore ==
    /\ fname = "download_and_store_locally"
    /\ fpc = "download"
    /\ \E outcome \in {"ok", "raises"} :
          IF outcome = "ok"
          THEN /\ result' = [result EXCEPT !.folder =
                     download_and_store_locally(args.variant, args.key, args.members)]
               /\ fpc' = "downloaded"
          ELSE /\ fpc' = "failed"
               /\ result' = result
    /\ UNCHANGED <<fname, args>>
    /\ UNCHANGED <<wfVars, pollVars>>

\* update_stac_item_success walks the folder the download wrote to.
RegisterDelivery ==
    /\ fname = "download_and_store_locally"
    /\ fpc = "downloaded"
    /\ \/ /\ args.variant = "airbus"
          /\ result' = [result EXCEPT !.assets =
                 AirbusAssets(SortedWalk(result.folder), 1, {}, {})]
       \/ /\ args.variant = "planet"
          /\ \E q \in WalkOrders(result.folder) :
                result' = [result EXCEPT !.assets = PlanetAssets(q, 1, {})]
    /\ fpc' = "succeeded"
    /\ UNCHANGED <<fname, args>>
    /\ UNCHANGED <<wfVars, pollVars>>

DeliveryNext == DownloadAndStore \/ RegisterDelivery

DeliverySpec == DeliveryInit /\ [][DeliveryNext]_vars

\* C23: when the delivered object is a tar.gz or zip archive, its members
\* are in the destination folder and, once the item is finalized, no asset's
\* href is the downloaded archive.
C23_ArchiveNotAnAsset ==
    (fname = "download_and_store_locally" /\ fpc = "succeeded"
        /\ args.key \in ArchiveKeys) =>
        /\ args.members \subseteq result.folder
        /\ \A e \in result.assets : e.href.base # args.key

---------------------------------------------------------------------------
(* main of planet_adaptor for one item, from the lookup of an existing     *)
(* order to the start of the data poll.  args is the list of orders the    *)
(* vendor's list_orders yields, in the order it yields them; result is     *)
(* what main holds: the id the vendor gave to the order this run           *)
(* submitted (None when it submitted none) and main's order_id.            *)

MaxOrders == 2

ORDER_NAME == "item-workspace"

OrderNames == {ORDER_NAME, "other"}

OrderStates == {"queued", "running", "success", "failed"}

OldIds == <<"old1", "old2", "old3">>

\* The orders the vendor holds when main starts, with ids by position.
StandingOrders ==
    UNION {{[i \in 1..n |-> [name |-> nm[i], id |-> OldIds[i], state |-> st[i]]] :
               nm \in [1..n -> OrderNames], st \in [1..n -> OrderStates]} :
           n \in 0..MaxOrders}

\* get_existing_order_details: the first order of list_orders with the name,
\* {} when there is none.
RECURSIVE get_existing_order_details(_, _)
get_existing_order_details(order_name, orders) ==
    IF orders = <<>> THEN [name |-> None, id |-> None, state |-> None]
    ELSE IF Head(orders).name = order_name THEN Head(orders)
         ELSE get_existing_order_details(order_name, Tail(orders))

PlanetInit ==
    /\ WorkflowIdle
    /\ PollIdle
    /\ fname = "planet_main"
    /\ args \in StandingOrders
    /\ result = [submitted |-> None, order_id |-> None]
    /\ fpc = "lookup"

\* Lines 319-338: the lookup by name and the test for an order in progress.
PlanetLookup ==
    /\ fname = "planet_main"
    /\ fpc = "lookup"
    /\ \E outcome \in {"ok", "raises"} :
          LET order == get_existing_order_details(ORDER_NAME, args) IN
          IF outcome = "raises" \/ order.state \in {"queued", "running"}
          THEN fpc' = "failed" /\ result' = result
          ELSE IF order.state = "success"
               THEN /\ result' = [result EXCEPT !.order_id = order.id]
                    /\ fpc' = "ordered"
               ELSE fpc' = "submit" /\ result' = result
    /\ UNCHANGED <<fname, args>>
    /\ UNCHANGED <<wfVars, pollVars>>

\* Lines 340-372: submit_order, whose returned order is dropped, then the
\* second lookup by name.  Where the vendor lists the new order among the
\* others is the vendor's choice.
PlanetSubmit ==
    /\ fname = "planet_main"
    /\ fpc = "submit"
    /\ \E outcome \in {"listed_first", "listed_last", "raises"} :
          LET new == [name |-> ORDER_NAME, id |-> "new", state |-> "queued"] IN
          IF outcome = "raises"
          THEN /\ fpc' = "failed"
               /\ UNCHANGED <<args, result>>
          ELSE /\ args' = IF outcome = "listed_first"
                          THEN <<new>> \o args ELSE Append(args, new)
               /\ result' = [submitted |-> new.id,
                             order_id |-> get_existing_order_details(ORDER_NAME, args').id]
               /\ fpc' = "ordered"
    /\ UNCHANGED fname
    /\ UNCHANGED <<wfVars, pollVars>>

\* Lines 374-409: update_stac_item_ordered with order_id, then the poll for
\* the folder of that id.
PlanetPoll ==
    /\ fname = "planet_main"
    /\ fpc = "ordered"
    /\ fpc' = "polling"
    /\ UNCHANGED <<fname, args, result>>
    /\ UNCHANGED <<wfVars, pollVars>>

PlanetNext == PlanetLookup \/ PlanetSubmit \/ PlanetPoll

PlanetSpec == PlanetInit /\ [][PlanetNext]_vars

---------------------------------------------------------------------------
(* move_data_to_workspace of airbus-sar/airbus_sar_adaptor/s3_utils.py     *)
(* (the one in airbus-sar/airbus-sar-adaptor/__main__.py is the same       *)
(* loop).  args is response["Contents"], the keys in the order of the      *)
(* listing; result is the keys in the source bucket and the listed keys    *)
(* copied to the destination bucket; fpc is the position in the loop.      *)

MaxObjects == 3

Listings ==
    {l \in UNION {[1..n -> {"k1", "k2", "k3"}] : n \in 0..MaxObjects} :
        \A i, j \in DOMAIN l : i # j => l[i] # l[j]}

\* A loop body that deletes before it copies.
CallOrder_delete_first == <<"delete", "copy">>

\* The S3 calls of the loop body, in the order of the statements.
CallOrder == <<"copy", "delete">>

MoveInit ==
    /\ WorkflowIdle
    /\ PollIdle
    /\ fname = "move_data_to_workspace"
    /\ args \in Listings
    /\ result = [source |-> Range(args), destination |-> {}]
    /\ fpc = [i |-> 1, k |-> 1, at |-> IF args = <<>> THEN "returned" ELSE "loop"]

\* The position after a call that returned.
AfterCall ==
    IF fpc.k < Len(CallOrder) THEN [fpc EXCEPT !.k = fpc.k + 1]
    ELSE [i |-> fpc.i + 1, k |-> 1,
          at |-> IF fpc.i < Len(args) THEN "loop" ELSE "returned"]

\* s3.copy_object: the key is copied when it is in the source bucket; the
\* call raises when it is not, and may raise for reasons of its own.
CopyObject ==
    /\ fname = "move_data_to_workspace"
    /\ fpc.at = "loop"
    /\ CallOrder[fpc.k] = "copy"
    /\ \E outcome \in {"ok", "raises"} :
          IF outcome = "ok" /\ args[fpc.i] \in result.source
          THEN /\ result' = [result EXCEPT !.destination = @ \cup {args[fpc.i]}]
               /\ fpc' = AfterCall
          ELSE /\ fpc' = [fpc EXCEPT !.at = "raised"]
               /\ result' = result
    /\ UNCHANGED <<fname, args>>
    /\ UNCHANGED <<wfVars, pollVars>>

\* s3.delete_object on the source bucket.
DeleteObject ==
    /\ fname = "move_data_to_workspace"
    /\ fpc.at = "loop"
    /\ CallOrder[fpc.k] = "delete"
    /\ \E outcome \in {"ok", "raises"} :
          IF outcome = "ok"
          THEN /\ result' = [result EXCEPT !.source = @ \ {args[fpc.i]}]
               /\ fpc' = AfterCall
          ELSE /\ fpc' = [fpc EXCEPT !.at = "raised"]
               /\ result' = result
    /\ UNCHANGED <<fname, args>>
    /\ UNCHANGED <<wfVars, pollVars>>

MoveNext == CopyObject \/ DeleteObject

MoveSpec == MoveInit /\ [][MoveNext]_vars

\* C30: in every state of move_data_to_workspace, also after one of its
\* calls has raised, every listed object is in the source bucket or in the
\* destination bucket, and the objects behind the one being moved are in the
\* source bucket and not in the destination.
C30_NoObjectLost ==
    fname = "move_data_to_workspace" =>
        /\ \A j \in DOMAIN args :
              args[j] \in result.source \/ args[j] \in result.destination
        /\ \A j \in DOMAIN args :
              j > fpc.i => (args[j] \in result.source
                              /\ args[j] \notin result.destination)
        /\ fpc.at = "returned" =>
              (result.source = {} /\ result.destination = Range(args))

\* The delete of the second of three objects has raised: the first is moved,
\* the second is in both buckets, the third was not touched.
C30_Witness ==
    /\ fname = "move_data_to_workspace"
    /\ Len(args) = 3
    /\ fpc.at = "raised" /\ fpc.i = 2
    /\ result.source = {args[2], args[3]}
    /\ result.destination = {args[1], args[2]}

===========================================================================
